---- MODULE Spec2Model ----
(***************************************************************************)
(* A model of the AI Career Copilot single-page application: the           *)
(* achievement engine (utils/achievementUtils.ts) and the profile update   *)
(* orchestrator of App.tsx (optimistic update, role-change regeneration,   *)
(* persistence, revert).                                                   *)
(***************************************************************************)
EXTENDS Integers, Sequences, FiniteSets, TLC

VARIABLES
    arg,        \* achievement engine: the profile snapshot handed to the engine
    result,     \* achievement engine: the call's outcome (called, achievements)
    user,       \* App: useState user, the in-memory profile (NULL when none)
    db,         \* the profile store's row for this user (NULL when none)
    appError,   \* App: useState appError (TRUE when a message is set)
    isLoading,  \* App: useState isLoading
    heap,       \* the roadmap step objects shared by the profile objects
    flows,      \* the handleUpdateProfile / regenerate calls that are suspended at an await
    ev,         \* what the last step did (its kind and the call that took it)
    ops,        \* number of handler invocations so far
    voice,      \* VoiceMentor: the component's state, refs and audio nodes
    ui,         \* the mounted feature view: its component state and suspended handlers
    authSession \* App: useState session (TRUE when there is an auth session)

vars == <<arg, result, user, db, appError, isLoading, heap, flows, ev, ops, voice, ui,
         authSession>>
engineVars == <<arg, result>>
appVars == <<user, db, appError, isLoading, heap, flows, ev, ops>>

\* null: no profile (useState<UserProfile | null>(null), no row in the store).
NULL == [null |-> TRUE]

(***************************************************************************)
(* Bounds of the model.                                                    *)
(***************************************************************************)
MaxProjects == 3
MaxSteps == 3

(***************************************************************************)
(* types.ts                                                                *)
(***************************************************************************)
Proficiency == {"Beginner", "Intermediate", "Advanced", "Expert"}
Difficulty == {"Easy", "Medium", "Hard"}
Status == {"Not Started", "In Progress", "Completed"}

(***************************************************************************)
(* utils/achievementUtils.ts                                               *)
(***************************************************************************)
\* The ids of ALL_ACHIEVEMENTS, in the order of the table.
ALL_ACHIEVEMENTS ==
    << "PROJECT_STARTER", "PROJECT_FINISHER", "TRIPLE_THREAT", "HARD_MODE",
       "FIRST_STEP", "HALFWAY_THERE", "ROADMAP_COMPLETE",
       "SKILL_COLLECTOR", "EXPERT_DEVELOPER", "ADVANCED_PRACTITIONER",
       "STREAK_KEEPER" >>

Range(s) == {s[i] : i \in DOMAIN s}

\* user.achievements.map(a => a.id) as a Set; an achievement is its id.
existingIds(u) == Range(u.achievements)

\* user.projects.filter(p => p.status === 'Completed')
completedProjects(u) == SelectSeq(u.projects, LAMBDA p : p.status = "Completed")

\* user.roadmap.filter(r => r.completed)
completedSteps(u) == SelectSeq(u.roadmap, LAMBDA r : r.completed)

\* completedSteps.length / user.roadmap.length >= 0.5, for a roadmap that is
\* not empty: the quotient of two small integers is below 0.5 exactly when
\* twice the numerator is below the denominator.
RatioAtLeastHalfMutant(c, total) == 2 * c > total
RatioAtLeastHalf(c, total) == 2 * c >= total

HalfwayThere(u) ==
    Len(u.roadmap) > 0 /\ RatioAtLeastHalf(Len(completedSteps(u)), Len(u.roadmap))

RoadmapCompleteMutant(u) == \A i \in DOMAIN u.roadmap : u.roadmap[i].completed
RoadmapComplete(u) ==
    Len(u.roadmap) > 0 /\ \A i \in DOMAIN u.roadmap : u.roadmap[i].completed

\* The condition of the if statement that guards addAchievement(id).
RuleHolds(id, u) ==
    CASE id = "PROJECT_STARTER" ->
            \E i \in DOMAIN u.projects : u.projects[i].status # "Not Started"
      [] id = "PROJECT_FINISHER" -> Len(completedProjects(u)) >= 1
      [] id = "TRIPLE_THREAT" -> Len(completedProjects(u)) >= 3
      [] id = "HARD_MODE" ->
            \E i \in DOMAIN completedProjects(u) :
                completedProjects(u)[i].difficulty = "Hard"
      [] id = "FIRST_STEP" -> Len(completedSteps(u)) >= 1
      [] id = "HALFWAY_THERE" -> HalfwayThere(u)
      [] id = "ROADMAP_COMPLETE" -> RoadmapComplete(u)
      [] id = "SKILL_COLLECTOR" -> Len(u.skills) >= 10
      [] id = "EXPERT_DEVELOPER" ->
            \E i \in DOMAIN u.skills : u.skills[i].proficiency = "Expert"
      [] id = "ADVANCED_PRACTITIONER" ->
            Len(SelectSeq(u.skills, LAMBDA s : s.proficiency = "Advanced")) >= 5
      [] id = "STREAK_KEEPER" -> u.streak >= 7
      [] OTHER -> FALSE

\* addAchievement is called for the rules in the order of the if statements
\* (the order of the table); it pushes an id that is not in existingIds.
potentialNewAchievements(u) ==
    SelectSeq(ALL_ACHIEVEMENTS,
              LAMBDA id : RuleHolds(id, u) /\ id \notin existingIds(u))

\* finalAchievements after the forEach over the first n potential achievements.
RECURSIVE pushNew(_, _, _)
pushNew(final, new, n) ==
    IF n = 0 THEN final
    ELSE LET f == pushNew(final, new, n - 1)
         IN  IF new[n] \in Range(f) THEN f ELSE Append(f, new[n])

checkAndAwardAchievementsMutant(u) == potentialNewAchievements(u)
checkAndAwardAchievements(u) ==
    pushNew(u.achievements, potentialNewAchievements(u),
            Len(potentialNewAchievements(u)))

(***************************************************************************)
(* The achievement engine on its own: a profile snapshot is drawn from the *)
(* bounded sets below and handed to checkAndAwardAchievements.             *)
(***************************************************************************)
RECURSIVE Rep(_, _)
Rep(n, x) == IF n = 0 THEN << >> ELSE Append(Rep(n - 1, x), x)

Skill(p) == [proficiency |-> p]

ProjectLists ==
    UNION { [1..n -> [status : Status, difficulty : Difficulty]] : n \in 0..MaxProjects }

RoadmapLists == UNION { [1..n -> [completed : BOOLEAN]] : n \in 0..MaxSteps }

\* The skills, the streak and the achievements already held.
RestOfProfile ==
    { [skills |-> Rep(4, Skill("Advanced")), streak |-> 6, achievements |-> << >>],
      [skills |-> Rep(5, Skill("Advanced")), streak |-> 7, achievements |-> << >>],
      [skills |-> Rep(9, Skill("Beginner")), streak |-> 1,
       achievements |-> <<"HALFWAY_THERE", "LEGACY">>],
      [skills |-> Rep(9, Skill("Intermediate")) \o <<Skill("Expert")>>, streak |-> 8,
       achievements |-> <<"TRIPLE_THREAT", "ROADMAP_COMPLETE">>],
      [skills |-> Rep(5, Skill("Beginner")) \o Rep(5, Skill("Advanced")), streak |-> 0,
       achievements |-> <<"FIRST_STEP", "FIRST_STEP">>],
      [skills |-> << >>, streak |-> 7, achievements |-> <<"STREAK_KEEPER">>] }

Snapshot(ps, rs, r) ==
    [projects |-> ps, roadmap |-> rs, skills |-> r.skills, streak |-> r.streak,
     achievements |-> r.achievements]

\* VoiceMentor as it is mounted: useState and useRef initial values, no
\* stream, no nodes, no session.
VoiceInitial ==
    [status |-> "IDLE", transcript |-> 0, starting |-> FALSE,
     mic |-> FALSE, nodes |-> FALSE, audioContextRef |-> FALSE,
     sessionPromiseRef |-> FALSE, upstream |-> "none",
     epoch |-> 0, birth |-> << >>, clock |-> 0,
     nextStartTimeRef |-> 0, audioQueueRef |-> {}, sources |-> << >>,
     decoding |-> {}, arrived |-> 0, stop |-> "none", saved |-> 0,
     endRequested |-> FALSE]

\* No feature view is modelled as mounted.
NoView == [view |-> "none"]

AppIdle ==
    /\ user = NULL
    /\ db = NULL
    /\ appError = FALSE
    /\ isLoading = FALSE
    /\ heap = << >>
    /\ flows = {}
    /\ ev = [kind |-> "none", flow |-> 0]
    /\ ops = 0
    /\ voice = VoiceInitial
    /\ ui = NoView
    /\ authSession = TRUE

InitAward ==
    /\ \E ps \in ProjectLists : \E rs \in RoadmapLists : \E r \in RestOfProfile :
            arg = Snapshot(ps, rs, r)
    /\ result = [called |-> FALSE]
    /\ AppIdle

Award ==
    /\ ~result.called
    /\ result' = [called |-> TRUE, achievements |-> checkAndAwardAchievements(arg)]
    /\ UNCHANGED <<arg, appVars, voice, ui, authSession>>

NextAward == Award

SpecAward == InitAward /\ [][NextAward]_vars

(***************************************************************************)
(* C1: the ids returned by checkAndAwardAchievements(p) are the ids of     *)
(* p.achievements together with exactly the ids of the rule-table rows     *)
(* whose predicate holds on p; no other id is added.                       *)
(***************************************************************************)
NumCompleted(p) == Cardinality({i \in DOMAIN p.projects : p.projects[i].status = "Completed"})
NumStepsDone(p) == Cardinality({i \in DOMAIN p.roadmap : p.roadmap[i].completed})
NumAdvanced(p) == Cardinality({i \in DOMAIN p.skills : p.skills[i].proficiency = "Advanced"})

C1_RuleTable(p) ==
    (IF \E i \in DOMAIN p.projects : p.projects[i].status # "Not Started"
        THEN {"PROJECT_STARTER"} ELSE {})
    \cup (IF NumCompleted(p) >= 1 THEN {"PROJECT_FINISHER"} ELSE {})
    \cup (IF NumCompleted(p) >= 3 THEN {"TRIPLE_THREAT"} ELSE {})
    \cup (IF \E i \in DOMAIN p.projects :
                /\ p.projects[i].status = "Completed"
                /\ p.projects[i].difficulty = "Hard"
           THEN {"HARD_MODE"} ELSE {})
    \cup (IF NumStepsDone(p) >= 1 THEN {"FIRST_STEP"} ELSE {})
    \cup (IF Len(p.roadmap) > 0 /\ 2 * NumStepsDone(p) >= Len(p.roadmap)
           THEN {"HALFWAY_THERE"} ELSE {})
    \cup (IF Len(p.roadmap) > 0 /\ NumStepsDone(p) = Len(p.roadmap)
           THEN {"ROADMAP_COMPLETE"} ELSE {})
    \cup (IF Len(p.skills) >= 10 THEN {"SKILL_COLLECTOR"} ELSE {})
    \cup (IF \E i \in DOMAIN p.skills : p.skills[i].proficiency = "Expert"
           THEN {"EXPERT_DEVELOPER"} ELSE {})
    \cup (IF NumAdvanced(p) >= 5 THEN {"ADVANCED_PRACTITIONER"} ELSE {})
    \cup (IF p.streak >= 7 THEN {"STREAK_KEEPER"} ELSE {})

\* C1: the ids of checkAndAwardAchievements(p) are the ids of p.achievements
\* united with the ids of the rows of the rule table that hold on p.
C1_AwardedIds ==
    result.called =>
        Range(result.achievements) = Range(arg.achievements) \cup C1_RuleTable(arg)

\* Three completed projects, one of them Hard, and an empty roadmap: the four
\* project achievements are in the result and ROADMAP_COMPLETE is not.
C1_Witness ==
    /\ result.called
    /\ Len(arg.projects) = 3
    /\ \A i \in 1..3 : arg.projects[i].status = "Completed"
    /\ {arg.projects[i].difficulty : i \in 1..3} = Difficulty
    /\ arg.roadmap = << >>
    /\ arg.achievements = << >>
    /\ {"PROJECT_STARTER", "PROJECT_FINISHER", "TRIPLE_THREAT", "HARD_MODE"}
            \subseteq Range(result.achievements)
    /\ "ROADMAP_COMPLETE" \notin Range(result.achievements)

(***************************************************************************)
(* The application state of App.tsx.                                       *)
(*                                                                         *)
(* A profile object in memory is a record whose roadmap field is a         *)
(* reference into heap: the spread { ...user, ...profileUpdate } and       *)
(* [...currentUser.roadmap] copy the references to the step objects, not   *)
(* the steps. A row of the profile store holds the roadmap by value.       *)
(***************************************************************************)
MaxOps == 2
GenSteps == 2

ToggleXp == 150
LevelXp == 500

\* The suspended calls: each was started by one handler invocation.
Flows == 1..MaxOps
Roles == {"r1", "r2"}
SkillSets == { <<Skill("Beginner"), Skill("Advanced")>>, <<Skill("Expert")>> }
\* What the onboarding form and generateSkillMap give; the roles are alike.
OnboardingRoles == {"r1"}
OnboardingSkills == { <<Skill("Beginner"), Skill("Advanced")>> }

\* What the gateway returns: generateRoadmap marks every step not completed;
\* a failed request is caught inside the service function, which returns [].
GeneratedRoadmap == [i \in 1..GenSteps |-> [completed |-> FALSE]]
GeneratedProjects ==
    << [title |-> "p1", difficulty |-> "Easy", xp |-> 100],
       [title |-> "p2", difficulty |-> "Hard", xp |-> 400] >>
GeneratedTrends(role) == << role >>

generateRoadmap(ok) == IF ok THEN GeneratedRoadmap ELSE << >>
generateProjectSuggestions(ok) == IF ok THEN GeneratedProjects ELSE << >>
getIndustryTrends(role, ok) == IF ok THEN GeneratedTrends(role) ELSE << >>

\* (projects || []).map(p => ({ ...p, status: 'Not Started' }))
NotStarted(ps) ==
    [i \in DOMAIN ps |->
        [title |-> ps[i].title, difficulty |-> ps[i].difficulty, xp |-> ps[i].xp,
         status |-> "Not Started"]]

\* The profile object u with its roadmap read through heap h.
Value(u, h) == IF u = NULL THEN NULL ELSE [u EXCEPT !.roadmap = h[u.roadmap]]

\* { ...user, ...profileUpdate }
Merge(u, upd) == [k \in DOMAIN u |-> IF k \in DOMAIN upd THEN upd[k] ELSE u[k]]

\* Math.floor(newXp / 500) + 1
LevelOfMutant(xp) == (xp \div LevelXp)
LevelOf(xp) == (xp \div LevelXp) + 1

\* Math.max(0, currentUser.xp + xpChange)
NewXp(xp, xpChange) == IF xp + xpChange < 0 THEN 0 ELSE xp + xpChange

IdleFlow == [pc |-> "idle"]

\* const profileData = { ...tempUser, roadmap, projects, trends } of
\* handleOnboardingComplete; ref is the place of the roadmap in the heap.
ProfileData(targetRole, skills, ref, okProjects, okTrends) ==
    [targetRole |-> targetRole, xp |-> 0, level |-> 1, streak |-> 1,
     skills |-> skills, roadmap |-> ref,
     projects |-> NotStarted(generateProjectSuggestions(okProjects)),
     achievements |-> << >>,
     trends |-> getIndustryTrends(targetRole, okTrends),
     interviewHistory |-> << >>, smartChatHistory |-> << >>]

EngineIdle ==
    /\ arg = [projects |-> << >>, roadmap |-> << >>, skills |-> << >>, streak |-> 0,
              achievements |-> << >>]
    /\ result = [called |-> FALSE]

\* A user who has completed onboarding opens the application: fetchProfile
\* has read the row that handleOnboardingComplete wrote.
Init ==
    /\ EngineIdle
    /\ \E targetRole \in OnboardingRoles : \E skills \in OnboardingSkills :
       \E okRoadmap, okProjects \in BOOLEAN :
            /\ heap = << generateRoadmap(okRoadmap) >>
            /\ user = ProfileData(targetRole, skills, 1, okProjects, TRUE)
            /\ db = Value(user, heap)
    /\ appError = FALSE
    /\ isLoading = FALSE
    /\ flows = [f \in Flows |-> IdleFlow]
    /\ ev = [kind |-> "none", flow |-> 0]
    /\ ops = 0
    /\ voice = VoiceInitial
    /\ ui = NoView
    /\ authSession = TRUE

\* The views are rendered, so their handlers can be invoked: no error screen,
\* a profile, and a target role (otherwise Onboarding is shown).
ViewsRendered == ~appError /\ authSession /\ user # NULL /\ user.targetRole # ""

\* A call that is not suspended; the lowest one, the calls being alike.
FreeFlow(f) == flows[f].pc = "idle" /\ \A g \in Flows : g < f => flows[g].pc # "idle"

\* newTargetRole && newTargetRole !== oldTargetRole
RoleChange(upd, oldTargetRole) ==
    /\ "targetRole" \in DOMAIN upd
    /\ upd.targetRole # ""
    /\ upd.targetRole # oldTargetRole

\* let optimisticUser = { ...user, ...profileUpdate } with the achievements of
\* checkAndAwardAchievements(optimisticUser).
OptimisticUser(u, upd, h) ==
    LET merged == Merge(u, upd)
    IN  [merged EXCEPT !.achievements = checkAndAwardAchievements(Value(merged, h))]

\* setUser(user) when the confirmation is declined.
CancelledUserMutant(u, optimisticUser) == optimisticUser
CancelledUser(u, optimisticUser) == u

\* handleUpdateProfile(profileUpdate), called where the state user is u (the
\* closure's user), up to its first await or its return. before is the value
\* of the in-memory profile when the handler that makes the call was invoked,
\* h the heap at the call, confirm the answer to window.confirm.
handleUpdateProfile(f, u, upd, before, h, confirm) ==
    LET oldTargetRole == u.targetRole
        optimisticUser == OptimisticUser(u, upd, h)
    IN  /\ appError' = FALSE
        /\ db' = db
        /\ heap' = h
        /\ IF RoleChange(upd, oldTargetRole)
           THEN IF ~confirm
                THEN /\ user' = CancelledUser(u, optimisticUser)
                     /\ isLoading' = FALSE
                     /\ flows' = [flows EXCEPT ![f] = IdleFlow]
                     /\ ev' = [kind |-> "cancelled", flow |-> f]
                ELSE /\ user' = optimisticUser
                     /\ isLoading' = TRUE
                     /\ flows' = [flows EXCEPT ![f] =
                            [pc |-> "regenerating", user |-> u, before |-> before,
                             upd |-> upd, confirmed |-> TRUE,
                             optimisticUser |-> optimisticUser,
                             pending |-> {"roadmap", "projects", "trends"}]]
                     /\ ev' = [kind |-> "regenIssued", flow |-> f]
           ELSE /\ user' = optimisticUser
                /\ isLoading' = isLoading
                /\ flows' = [flows EXCEPT ![f] =
                       [pc |-> "persisting", user |-> u, before |-> before,
                        upd |-> upd, confirmed |-> FALSE,
                        payload |-> Value(optimisticUser, h), final |-> optimisticUser,
                        regenerated |-> FALSE, failed |-> {}, pending |-> {}]]
                /\ ev' = [kind |-> "persistIssued", flow |-> f]

\* Promise.all continues when no request is outstanding.
JoinReadyMutant(pending) == Cardinality(pending) <= 1
JoinReady(pending) == pending = {}

\* let regeneratedUser = { ...optimisticUser, roadmap, projects, trends } with
\* the achievements of checkAndAwardAchievements(regeneratedUser); ref is the
\* place of the new roadmap in heap h.
RegeneratedUser(optimisticUser, ref, newProjects, newTrends, h) ==
    LET merged == [optimisticUser EXCEPT !.roadmap = ref,
                                         !.projects = NotStarted(newProjects),
                                         !.trends = newTrends]
    IN  [merged EXCEPT !.achievements = checkAndAwardAchievements(Value(merged, h))]

\* One of the three requests of the Promise.all of a role change settles.
\* What the requests returned is read when Promise.all continues, with the
\* last of them: failed are the requests whose service function caught an
\* error and returned []. The call then goes on to
\* updateUserInDatabase(regeneratedUser).
RegenSettles(f, which, failed) ==
    /\ flows[f].pc = "regenerating"
    /\ which \in flows[f].pending
    /\ LET fl == flows[f]
           role == fl.upd.targetRole
           pending == fl.pending \ {which}
           newRoadmap == generateRoadmap("roadmap" \notin failed)
           newProjects == generateProjectSuggestions("projects" \notin failed)
           newTrends == getIndustryTrends(role, "trends" \notin failed)
           h == Append(heap, newRoadmap)
           regeneratedUser == RegeneratedUser(fl.optimisticUser, Len(h),
                                              newProjects, newTrends, h)
       IN  IF JoinReady(pending)
           THEN /\ heap' = h
                /\ flows' = [flows EXCEPT ![f] =
                       [pc |-> "persisting", user |-> fl.user, before |-> fl.before,
                        upd |-> fl.upd, confirmed |-> fl.confirmed,
                        payload |-> Value(regeneratedUser, h), final |-> regeneratedUser,
                        regenerated |-> TRUE, failed |-> failed, pending |-> pending]]
                /\ ev' = [kind |-> "persistIssued", flow |-> f, last |-> which]
           ELSE /\ failed = {}
                /\ heap' = heap
                /\ flows' = [flows EXCEPT ![f] = [fl EXCEPT !.pending = pending]]
                /\ ev' = [kind |-> "settled", flow |-> f]
    /\ UNCHANGED <<engineVars, voice, ui, authSession, user, db, appError, isLoading, ops>>

\* updateUserInDatabase resolves: the row is written. A role change then does
\* setUser(regeneratedUser); finally setIsLoading(false).
PersistSucceeds(f) ==
    /\ flows[f].pc = "persisting"
    /\ db' = flows[f].payload
    /\ user' = IF flows[f].regenerated THEN flows[f].final ELSE user
    /\ isLoading' = FALSE
    /\ flows' = [flows EXCEPT ![f] = IdleFlow]
    /\ ev' = [kind |-> "persisted", flow |-> f]
    /\ UNCHANGED <<engineVars, voice, ui, authSession, appError, heap, ops>>

\* setUser(user) in the catch block.
RevertedUser(u, current) == u

\* updateUserInDatabase throws: setAppError(...), then the catch block does
\* setUser(user); finally setIsLoading(false).
PersistFails(f) ==
    /\ flows[f].pc = "persisting"
    /\ appError' = TRUE
    /\ user' = RevertedUser(flows[f].user, user)
    /\ isLoading' = FALSE
    /\ flows' = [flows EXCEPT ![f] = IdleFlow]
    /\ ev' = [kind |-> "persistFailed", flow |-> f]
    /\ UNCHANGED <<engineVars, voice, authSession, db, heap, ops>>

\* if (appError) return <error screen>: the component of the feature view is
\* unmounted; the handlers it has suspended at an await stay.
Unmounted(u) ==
    IF u.view = "none" THEN u ELSE [u EXCEPT !.mounted = FALSE, !.comp = [screen |-> "gone"]]

\* The feature view is rendered again: a new component with its initial state.
Mounted(u, initial) == [u EXCEPT !.mounted = TRUE, !.inst = @ + 1, !.comp = initial]

\* An event handler of a rendered view can start: the handlers are closures
\* of the last render, so their user is the state user.
CanInvoke(f) == ViewsRendered /\ ops < MaxOps /\ FreeFlow(f)

\* handleRoadmapToggle(index): item.completed = !item.completed writes the
\* step object that user.roadmap holds too.
RoadmapToggle(f, index) ==
    /\ CanInvoke(f)
    /\ index \in DOMAIN heap[user.roadmap]
    /\ LET currentUser == user
           wasCompleted == heap[currentUser.roadmap][index].completed
           h == [heap EXCEPT ![currentUser.roadmap][index].completed = ~wasCompleted]
           xpChange == IF wasCompleted THEN -ToggleXp ELSE ToggleXp
           newXp == NewXp(currentUser.xp, xpChange)
           newLevel == LevelOf(newXp)
       IN  handleUpdateProfile(f, user,
               [roadmap |-> currentUser.roadmap, xp |-> newXp, level |-> newLevel],
               Value(user, heap), h, FALSE)
    /\ ops' = ops + 1
    /\ UNCHANGED <<engineVars, voice, authSession>>

handleRoadmapToggle ==
    \E f \in Flows : \E index \in 1..GenSteps : RoadmapToggle(f, index) /\ UNCHANGED ui

\* (currentUser.projects || []).find(p => p.title === updatedProject.title)?.status
StoredStatus(projects, title) ==
    IF \E j \in DOMAIN projects : projects[j].title = title
    THEN projects[CHOOSE j \in DOMAIN projects : projects[j].title = title].status
    ELSE "undefined"

\* xpChange of handleUpdateProject.
XpChangeMutant(oldStatus, updatedProject) ==
    IF updatedProject.status = "Completed" THEN updatedProject.xp
    ELSE IF oldStatus = "Completed" THEN -updatedProject.xp
    ELSE 0
XpChange(oldStatus, updatedProject) ==
    IF oldStatus # "Completed" /\ updatedProject.status = "Completed"
    THEN updatedProject.xp
    ELSE IF oldStatus = "Completed" /\ updatedProject.status # "Completed"
         THEN -updatedProject.xp
         ELSE 0

\* handleUpdateProject(updatedProject)
UpdateProject(f, updatedProject) ==
    /\ CanInvoke(f)
    /\ LET currentUser == user
           newProjects == [j \in DOMAIN currentUser.projects |->
                             IF currentUser.projects[j].title = updatedProject.title
                             THEN updatedProject ELSE currentUser.projects[j]]
           oldStatus == StoredStatus(currentUser.projects, updatedProject.title)
           xpChange == XpChange(oldStatus, updatedProject)
           newXp == NewXp(currentUser.xp, xpChange)
           newLevel == LevelOf(newXp)
       IN  handleUpdateProfile(f, user,
               [projects |-> newProjects, xp |-> newXp, level |-> newLevel],
               Value(user, heap), heap, FALSE)
    /\ ops' = ops + 1
    /\ UNCHANGED <<engineVars, voice, authSession>>

\* handleUpdateProject(updatedProject), with a project of the profile given
\* the status s.
handleUpdateProject ==
    \E f \in Flows : \E i \in 1..Len(GeneratedProjects) : \E s \in Status :
        /\ CanInvoke(f)
        /\ i \in DOMAIN user.projects
        /\ UpdateProject(f, [user.projects[i] EXCEPT !.status = s])
        /\ UNCHANGED ui

\* handleRegenerateRoadmap, handleRegenerateProjects and the onUpdateTrends of
\* TrendWatcher, up to the await of the gateway request. Each keeps the user
\* and the handleUpdateProfile of the render it was invoked in.
StartGenerate ==
    \E f \in Flows : \E kind \in {"roadmap", "projects", "trends"} :
        /\ CanInvoke(f)
        /\ flows' = [flows EXCEPT ![f] = [pc |-> "generating", kind |-> kind, user |-> user]]
        /\ isLoading' = IF kind = "trends" THEN isLoading ELSE TRUE
        /\ ev' = [kind |-> "generating", flow |-> f]
        /\ ops' = ops + 1
        /\ UNCHANGED <<engineVars, voice, ui, authSession, user, db, appError, heap>>

\* The gateway request settles and handleUpdateProfile is called with the
\* new roadmap, projects or trends.
GenerateSettles ==
    \E f \in Flows : \E ok \in BOOLEAN :
        /\ flows[f].pc = "generating"
        /\ LET fl == flows[f]
               h == IF fl.kind = "roadmap" THEN Append(heap, generateRoadmap(ok)) ELSE heap
               upd == CASE fl.kind = "roadmap" -> [roadmap |-> Len(h)]
                        [] fl.kind = "projects" ->
                              [projects |-> NotStarted(generateProjectSuggestions(ok))]
                        [] fl.kind = "trends" ->
                              [trends |-> getIndustryTrends(fl.user.targetRole, ok)]
           IN  handleUpdateProfile(f, fl.user, upd, Value(user, heap), h, FALSE)
        /\ UNCHANGED <<engineVars, voice, ui, authSession, ops>>

\* ProfileEditor.handleSubmit: onUpdateProfile({ name, targetRole, githubUrl,
\* linkedinUrl, skills }) with what the form holds.
ProfileEditorSubmit ==
    \E f \in Flows : \E targetRole \in Roles \cup {""} : \E skills \in SkillSets :
    \E confirm \in BOOLEAN :
        /\ CanInvoke(f)
        /\ handleUpdateProfile(f, user, [targetRole |-> targetRole, skills |-> skills],
                               Value(user, heap), heap, confirm)
        /\ ops' = ops + 1
        /\ UNCHANGED <<engineVars, voice, ui, authSession>>

\* handleSaveInterview(sessionData)
handleSaveInterview ==
    \E f \in Flows :
        /\ CanInvoke(f)
        /\ handleUpdateProfile(f, user,
               [interviewHistory |-> <<"session">> \o user.interviewHistory],
               Value(user, heap), heap, FALSE)
        /\ ops' = ops + 1
        /\ UNCHANGED <<engineVars, voice, ui, authSession>>

\* handleOnboardingComplete, shown while there is no profile or no target role:
\* the skill map, the three generated artifacts, then the upsert and
\* setUser(profileData), or setAppError when the upsert fails.
handleOnboardingComplete ==
    \E targetRole \in OnboardingRoles : \E skills \in OnboardingSkills :
    \E okRoadmap, okProjects, okTrends, okUpsert \in BOOLEAN :
        /\ ~appError
        /\ authSession
        /\ IF user = NULL THEN TRUE ELSE user.targetRole = ""
        /\ ops < MaxOps
        /\ LET h == Append(heap, generateRoadmap(okRoadmap))
               profileData == ProfileData(targetRole, skills, Len(h), okProjects, okTrends)
           IN  IF okUpsert
               THEN /\ heap' = h
                    /\ user' = profileData
                    /\ db' = Value(profileData, h)
                    /\ appError' = FALSE
                    /\ ev' = [kind |-> "onboarded", flow |-> 0]
               ELSE /\ appError' = TRUE
                    /\ ev' = [kind |-> "onboardingFailed", flow |-> 0]
                    /\ UNCHANGED <<heap, user, db>>
        /\ isLoading' = FALSE
        /\ ops' = ops + 1
        /\ UNCHANGED <<engineVars, voice, ui, authSession, flows>>

\* The page is loaded again (the Refresh Page button of the error screen):
\* the suspended calls are gone and fetchProfile reads the row.
Reload ==
    \E okFetch \in BOOLEAN :
        /\ ops < MaxOps
        /\ appError
        /\ flows' = [f \in Flows |-> IdleFlow]
        /\ isLoading' = FALSE
        /\ IF okFetch /\ db # NULL
           THEN /\ heap' = Append(heap, db.roadmap)
                /\ user' = [db EXCEPT !.roadmap = Len(heap) + 1]
                /\ appError' = FALSE
           ELSE /\ heap' = heap
                /\ user' = NULL
                /\ appError' = ~okFetch
        /\ ev' = [kind |-> "reload", flow |-> 0]
        /\ ops' = ops + 1
        /\ UNCHANGED <<engineVars, voice, ui, authSession, db>>

RegenerationSettles == \E f \in Flows : \E which \in {"roadmap", "projects", "trends"} :
    \E failed \in SUBSET {"roadmap", "projects", "trends"} : RegenSettles(f, which, failed)

PersistenceSucceeds == \E f \in Flows : PersistSucceeds(f)

\* With appError set App returns the error screen alone: the feature view
\* is unmounted and its component state is gone.
PersistenceFails == \E f \in Flows : PersistFails(f) /\ ui' = Unmounted(ui)

Next ==
    \/ handleOnboardingComplete
    \/ handleRoadmapToggle
    \/ handleUpdateProject
    \/ ProfileEditorSubmit
    \/ handleSaveInterview
    \/ StartGenerate
    \/ GenerateSettles
    \/ RegenerationSettles
    \/ PersistenceSucceeds
    \/ PersistenceFails
    \/ Reload

Spec == Init /\ [][Next]_vars

(***************************************************************************)
(* Properties of the update orchestrator, under Spec.                      *)
(***************************************************************************)
AllIdle == \A f \in Flows : flows[f].pc = "idle"

NotProfileLoad == ev'.kind \notin {"onboarded", "onboardingFailed", "reload"}

\* C2: across the updates applied through handleUpdateProfile, cancelled and
\* failed ones included, an achievement id that is in the in-memory profile is
\* in the in-memory profile after every later step.
C2_AchievementsStay ==
    [][ (user # NULL /\ user' # NULL /\ NotProfileLoad)
            => existingIds(user) \subseteq existingIds(user') ]_vars

\* C3: a confirmed role change one of whose three regeneration requests failed
\* writes nothing to the store and ends with the in-memory profile equal to
\* the profile before the update.
C3_AllOrNothing ==
    [][ (ev'.kind = "persisted" /\ flows[ev'.flow].regenerated
            /\ flows[ev'.flow].failed # {})
            => /\ db' = db
               /\ Value(user', heap') = flows[ev'.flow].before ]_vars

\* C4: when the persistence call of an update fails, the in-memory profile is
\* afterwards, in every field, the profile that was in memory when the update
\* was made, and appError is set.
C4_RevertRestores ==
    [][ ev'.kind = "persistFailed"
            => /\ appError'
               /\ Value(user', heap') = flows[ev'.flow].before ]_vars

\* C5: whenever no call is in flight, the in-memory profile is the profile
\* last written to the store (the loaded row when nothing was written).
C5_IdleMatchesStore ==
    (AllIdle /\ user # NULL) => Value(user, heap) = db

\* C6: a regeneration request or a persistence call for an update whose
\* targetRole differs from the profile's targetRole is issued only after the
\* user has confirmed the change, the empty target role included.
C6_ConfirmedFirst ==
    [][ (/\ ev'.kind \in {"regenIssued", "persistIssued"}
         /\ "targetRole" \in DOMAIN flows'[ev'.flow].upd
         /\ flows'[ev'.flow].upd.targetRole # flows'[ev'.flow].user.targetRole)
            => flows'[ev'.flow].confirmed ]_vars

C8_JoinBarrier ==
    [][ (ev'.kind = "persistIssued" /\ flows'[ev'.flow].regenerated)
            => LET fl == flows[ev'.flow]
                   nf == flows'[ev'.flow]
                   merged == [Value(fl.optimisticUser, heap) EXCEPT
                       !.roadmap = generateRoadmap("roadmap" \notin nf.failed),
                       !.projects = NotStarted(
                           generateProjectSuggestions("projects" \notin nf.failed)),
                       !.trends = getIndustryTrends(fl.upd.targetRole,
                                                    "trends" \notin nf.failed)]
               IN  /\ fl.pc = "regenerating"
                   /\ fl.pending = {ev'.last}
                   /\ nf.pending = {}
                   /\ nf.payload = [merged EXCEPT
                          !.achievements = checkAndAwardAchievements(merged)]
                   /\ db' = db ]_vars

\* The roadmap request, the first of the Promise.all, completes last and the
\* persistence call goes out with the three new artifacts.
C8_Witness ==
    /\ ev.kind = "persistIssued"
    /\ flows[ev.flow].pc = "persisting"
    /\ flows[ev.flow].regenerated
    /\ ev.last = "roadmap"
    /\ flows[ev.flow].payload.targetRole = "r2"
    /\ flows[ev.flow].payload.roadmap = GeneratedRoadmap
    /\ flows[ev.flow].payload.projects = NotStarted(GeneratedProjects)
    /\ flows[ev.flow].payload.trends = GeneratedTrends("r2")

\* C9: an update that does not change the target role issues no regeneration
\* request, leaves every field of the in-memory profile that the update does
\* not name as it was, achievements apart, and persists the merged profile
\* with the achievements recomputed.
C9_FrameOfUpdate ==
    [][ (/\ ev'.kind = "persistIssued"
         /\ ~flows'[ev'.flow].regenerated
         /\ ("targetRole" \in DOMAIN flows'[ev'.flow].upd
                => flows'[ev'.flow].upd.targetRole = user.targetRole))
            => LET nf == flows'[ev'.flow]
                   merged == Value(Merge(user, nf.upd), heap')
               IN  /\ \A k \in DOMAIN user \ (DOMAIN nf.upd \cup {"achievements"}) :
                         Value(user', heap')[k] = Value(user, heap)[k]
                   /\ nf.payload = [merged EXCEPT
                          !.achievements = checkAndAwardAchievements(merged)] ]_vars

\* C10: the in-memory profile has xp >= 0 and level = floor(xp / 500) + 1.
C10_XpLevel ==
    user # NULL => user.xp >= 0 /\ user.level = (user.xp \div 500) + 1

\* A completed Hard project (400) and a completed step (150): xp 550, level 2.
C10_Witness ==
    /\ user # NULL
    /\ user.xp = 550
    /\ user.level = 2

\* The xp rewards of the Completed projects among the first n of ps, summed.
RECURSIVE CompletedXp(_, _)
CompletedXp(ps, n) ==
    IF n = 0 THEN 0
    ELSE CompletedXp(ps, n - 1) + (IF ps[n].status = "Completed" THEN ps[n].xp ELSE 0)

\* C11: the xp of the in-memory profile is 150 times the number of its
\* completed roadmap steps plus the xp rewards of its Completed projects.
C11_XpTracksProgress ==
    user # NULL =>
        user.xp = 150 * Cardinality({i \in DOMAIN heap[user.roadmap] :
                                        heap[user.roadmap][i].completed})
                  + CompletedXp(user.projects, Len(user.projects))

(***************************************************************************)
(* Properties of the achievement engine, under SpecAward.                  *)
(***************************************************************************)
\* C12: checkAndAwardAchievements on the snapshot with its achievements
\* replaced by the list the first call returned returns that same list.
C12_Idempotent ==
    result.called =>
        checkAndAwardAchievements([arg EXCEPT !.achievements = result.achievements])
            = result.achievements

\* The first call added achievements and the second call adds none.
C12_Witness ==
    /\ result.called
    /\ Len(result.achievements) >= Len(arg.achievements) + 3
    /\ checkAndAwardAchievements([arg EXCEPT !.achievements = result.achievements])
            = result.achievements

\* The roadmap achievements that the call added to the snapshot's own.
NewRoadmapAwards ==
    {id \in {"HALFWAY_THERE", "ROADMAP_COMPLETE"} :
        id \in Range(result.achievements) /\ id \notin Range(arg.achievements)}

MaxTotal == 10

StepsDone(total, c, front) ==
    [i \in 1..total |-> [completed |-> IF front THEN i <= c ELSE i > total - c]]

InitHalfway ==
    /\ \E total \in 1..MaxTotal : \E c \in 0..total : \E front \in BOOLEAN :
       \E r \in RestOfProfile :
            arg = Snapshot(<< >>, StepsDone(total, c, front), r)
    /\ result = [called |-> FALSE]
    /\ AppIdle

NextHalfway == Award

SpecHalfway == InitHalfway /\ [][NextHalfway]_vars

\* C14: on a roadmap of total > 0 steps with c of them completed, a profile
\* that does not hold HALFWAY_THERE is awarded it exactly when 2 * c >= total.
C14_HalfwayThreshold ==
    (result.called /\ Len(arg.roadmap) > 0
        /\ "HALFWAY_THERE" \notin Range(arg.achievements))
        => ("HALFWAY_THERE" \in Range(result.achievements)
                <=> 2 * NumStepsDone(arg) >= Len(arg.roadmap))

\* Ten steps, five of them completed: HALFWAY_THERE is newly awarded.
C14_Witness ==
    /\ result.called
    /\ Len(arg.roadmap) = 10
    /\ NumStepsDone(arg) = 5
    /\ "HALFWAY_THERE" \notin Range(arg.achievements)
    /\ "HALFWAY_THERE" \in Range(result.achievements)

\* Ten steps, four of them completed: HALFWAY_THERE is not awarded.
C14_FourOfTen ==
    /\ result.called
    /\ Len(arg.roadmap) = 10
    /\ NumStepsDone(arg) = 4
    /\ "HALFWAY_THERE" \notin Range(result.achievements)

\* C15: the list returned by checkAndAwardAchievements holds no two entries
\* with the same id, whatever the existing achievements list holds.
C15_UniqueIds ==
    result.called =>
        \A i, j \in DOMAIN result.achievements :
            i # j => result.achievements[i] # result.achievements[j]

(***************************************************************************)
(* handleUpdateProfile on a profile that lacks some of its arrays (a row   *)
(* of the store with null columns, installed by fetchProfile's             *)
(* setUser(data)): the call up to its first await.                         *)
(***************************************************************************)
ProfileArrays == {"achievements", "projects", "roadmap", "skills"}

\* The profile u without the fields in missing.
Without(u, missing) == [k \in DOMAIN u \ missing |-> u[k]]

\* user.achievements.map, user.projects.filter, user.roadmap.filter and
\* user.skills.length are evaluated on the field as it is: on undefined each
\* throws a TypeError.
MissingArrays(u) == ProfileArrays \ DOMAIN u
ThrowsTypeError(u) == MissingArrays(u) # {}

InitMissing ==
    /\ \E rs \in RoadmapLists : \E r \in RestOfProfile : \E missing \in SUBSET ProfileArrays :
            arg = Without(Snapshot(<< >>, rs, r), missing)
    /\ result = [called |-> FALSE]
    /\ AppIdle

\* handleUpdateProfile({ [named]: [] }) where the state user is arg:
\* optimisticUser = { ...user, ...profileUpdate }, then
\* checkAndAwardAchievements(optimisticUser) outside the try block; when it
\* throws, the call ends there, before setUser and updateUserInDatabase.
UpdateIncompleteProfile ==
    \E named \in {"roadmap", "projects", "interviewHistory"} :
        /\ ~result.called
        /\ LET optimisticUser ==
                   [k \in DOMAIN arg \cup {named} |-> IF k = named THEN << >> ELSE arg[k]]
           IN  result' =
                   IF ThrowsTypeError(optimisticUser)
                   THEN [called |-> TRUE, named |-> named, threw |-> TRUE,
                         applied |-> FALSE, persistIssued |-> FALSE]
                   ELSE [called |-> TRUE, named |-> named, threw |-> FALSE,
                         achievements |-> checkAndAwardAchievements(optimisticUser),
                         applied |-> TRUE, persistIssued |-> TRUE]
        /\ UNCHANGED <<arg, appVars, voice, ui, authSession>>

NextMissing == UpdateIncompleteProfile

SpecMissing == InitMissing /\ [][NextMissing]_vars

\* C16: checkAndAwardAchievements does not fail on a profile that lacks some
\* of its arrays, and the update goes on to the optimistic apply and to the
\* persistence call.
C16_MissingArraysTolerated ==
    result.called => (~result.threw /\ result.applied /\ result.persistIssued)

(***************************************************************************)
(* VoiceMentor (the component with session history): the capture, stream   *)
(* and playback pipeline. Times are whole units; an output AudioContext's  *)
(* currentTime is the clock minus the time the context was created. A      *)
(* source is a scheduled AudioBufferSourceNode; a message whose            *)
(* decodeAudioData is awaited is in decoding.                              *)
(***************************************************************************)
MaxSessions == 2
MaxMsgs == 2
MaxClock == 2
Durations == {1, 2}

Max(a, b) == IF a >= b THEN a ELSE b

\* outputAudioContext.currentTime of the context of session e.
currentTime(v, e) == v.clock - v.birth[e]

\* source.stop() for the sources of the queue, audioQueueRef.current.clear(),
\* the nodes disconnected, the input context closed, the refs set to null.
\* The MediaStream of getUserMedia and the output context are not touched.
cleanUpAudio(v) ==
    [v EXCEPT !.sources = [i \in DOMAIN v.sources |->
                              IF i \in v.audioQueueRef /\ v.sources[i].state = "scheduled"
                              THEN [v.sources[i] EXCEPT !.state = "stopped"]
                              ELSE v.sources[i]],
              !.audioQueueRef = {},
              !.nodes = FALSE,
              !.audioContextRef = FALSE]

\* startSession, up to await getUserMedia.
startSession ==
    /\ voice.status \in {"IDLE", "ERROR"}
    /\ ~voice.starting
    /\ voice.epoch < MaxSessions
    /\ voice' = [voice EXCEPT !.status = "CONNECTING", !.transcript = 0, !.starting = TRUE,
                               !.endRequested = FALSE]
    /\ UNCHANGED <<engineVars, appVars, ui, authSession>>

\* getUserMedia settles: the two contexts are created and ai.live.connect is
\* called, or the catch block reports the microphone error.
GetUserMediaSettles ==
    \E ok \in BOOLEAN :
        /\ voice.starting
        /\ voice' =
            IF ok
            THEN [voice EXCEPT !.starting = FALSE, !.mic = TRUE,
                               !.audioContextRef = TRUE,
                               !.epoch = @ + 1, !.birth = Append(@, voice.clock),
                               !.sessionPromiseRef = TRUE, !.upstream = "connecting"]
            ELSE [voice EXCEPT !.starting = FALSE, !.status = "ERROR"]
        /\ UNCHANGED <<engineVars, appVars, ui, authSession>>

\* callbacks.onopen
onopen ==
    /\ voice.upstream = "connecting"
    /\ voice' = [voice EXCEPT !.upstream = "open", !.status = "LISTENING", !.nodes = TRUE]
    /\ UNCHANGED <<engineVars, appVars, ui, authSession>>

\* callbacks.onmessage for a message with audio data, with or without an
\* output transcription: setTranscript appends the text, then the handler
\* runs up to await decodeAudioData.
onmessage ==
    \E d \in Durations : \E text \in BOOLEAN :
        /\ voice.upstream = "open"
        /\ voice.arrived < MaxMsgs
        /\ voice' = [voice EXCEPT !.status = "SPEAKING", !.arrived = @ + 1,
                        !.transcript = IF text THEN @ + 1 ELSE @,
                        !.decoding = @ \cup {[msg |-> voice.arrived + 1,
                                              epoch |-> voice.epoch, dur |-> d]}]
        /\ UNCHANGED <<engineVars, appVars, ui, authSession>>

\* The awaited decodeAudioData calls that may settle next: the function is
\* asynchronous and nothing orders the calls of different messages.
DecodeMayComplete(decoding) == decoding

\* nextStartTimeRef.current = Math.max(nextStartTimeRef.current, currentTime)
ScheduledStartMutant(nextStartTime, now) == now
ScheduledStart(nextStartTime, now) == Max(nextStartTime, now)

\* callbacks.onmessage after await decodeAudioData: the source is created,
\* started at the cursor, the cursor is advanced by the buffer's duration and
\* the source is added to the queue.
DecodeCompletes ==
    \E m \in DecodeMayComplete(voice.decoding) :
        LET now == currentTime(voice, m.epoch)
            start == ScheduledStart(voice.nextStartTimeRef, now)
            sourceNode == [msg |-> m.msg, epoch |-> m.epoch, at |-> now,
                           start |-> start, dur |-> m.dur, state |-> "scheduled"]
        IN  /\ voice' = [voice EXCEPT !.decoding = @ \ {m},
                            !.sources = Append(@, sourceNode),
                            !.nextStartTimeRef = start + m.dur,
                            !.audioQueueRef = @ \cup {Len(voice.sources) + 1}]
            /\ UNCHANGED <<engineVars, appVars, ui, authSession>>

\* Time passes on the audio clock.
Tick ==
    /\ voice.clock < MaxClock
    /\ voice' = [voice EXCEPT !.clock = @ + 1]
    /\ UNCHANGED <<engineVars, appVars, ui, authSession>>

\* sourceNode.onended: the buffer has played to its end, or the source was
\* stopped; the source leaves the queue and an empty queue sets LISTENING.
onended ==
    \E i \in DOMAIN voice.sources :
        LET src == voice.sources[i]
            queue == voice.audioQueueRef \ {i}
        IN  /\ \/ src.state = "stopped"
               \/ src.state = "scheduled"
                    /\ currentTime(voice, src.epoch) >= src.start + src.dur
            /\ voice' = [voice EXCEPT !.sources[i].state = "done",
                            !.audioQueueRef = queue,
                            !.status = IF queue = {} THEN "LISTENING" ELSE @]
            /\ UNCHANGED <<engineVars, appVars, ui, authSession>>

\* callbacks.onerror
onerror ==
    /\ voice.upstream \in {"connecting", "open"}
    /\ voice' = [cleanUpAudio(voice) EXCEPT !.status = "ERROR", !.upstream = "closed"]
    /\ UNCHANGED <<engineVars, appVars, ui, authSession>>

\* callbacks.onclose: after session.close(), or when the server closes.
onclose ==
    /\ voice.upstream \in {"open", "closing"}
    /\ voice' = [cleanUpAudio(voice) EXCEPT !.upstream = "closed"]
    /\ UNCHANGED <<engineVars, appVars, ui, authSession>>

\* The end of stopSession: cleanUpAudio(), setStatus('IDLE'), setTranscript([]).
StopFinished(v) ==
    [cleanUpAudio(v) EXCEPT !.status = "IDLE", !.transcript = 0, !.stop = "none"]

\* stopSession from if (sessionPromiseRef.current) on: the await of the
\* session promise, or straight to the end when there is none.
StopAfterSave(v) ==
    IF v.sessionPromiseRef THEN [v EXCEPT !.stop = "awaitingSession"] ELSE StopFinished(v)

\* stopSession, up to its first await, in a render whose transcript state
\* holds transcript entries.
StopSession(v, transcript) ==
    LET w == [v EXCEPT !.endRequested = TRUE]
    IN  IF transcript > 0 THEN [w EXCEPT !.stop = "summarizing"] ELSE StopAfterSave(w)

\* The End Session button is shown and stopSession is not running.
EndSessionShown == voice.status \notin {"IDLE", "ERROR"} /\ voice.stop = "none"

\* stopSession (the End Session button), up to its first await.
stopSession ==
    /\ EndSessionShown
    /\ voice' = StopSession(voice, voice.transcript)
    /\ UNCHANGED <<engineVars, appVars, ui, authSession>>

\* summarizeVoiceSession settles: onSaveSession(...) is called.
SummarySettles ==
    /\ voice.stop = "summarizing"
    /\ voice' = StopAfterSave([voice EXCEPT !.saved = @ + 1])
    /\ UNCHANGED <<engineVars, appVars, ui, authSession>>

\* await sessionPromiseRef.current settles: session.close(), the ref is set
\* to null, then the end of stopSession.
SessionPromiseSettles ==
    /\ voice.stop = "awaitingSession"
    /\ voice.upstream # "connecting"
    /\ voice' = StopFinished([voice EXCEPT
                    !.upstream = IF @ = "open" THEN "closing" ELSE @,
                    !.sessionPromiseRef = FALSE])
    /\ UNCHANGED <<engineVars, appVars, ui, authSession>>

InitVoice ==
    /\ EngineIdle
    /\ AppIdle

NextVoice ==
    \/ startSession
    \/ GetUserMediaSettles
    \/ onopen
    \/ onmessage
    \/ DecodeCompletes
    \/ Tick
    \/ onended
    \/ onerror
    \/ onclose
    \/ stopSession
    \/ SummarySettles
    \/ SessionPromiseSettles

SpecVoice == InitVoice /\ [][NextVoice]_vars

\* A session that has just opened: startSession, getUserMedia granted, onopen.
SessionOpen ==
    [VoiceInitial EXCEPT !.status = "LISTENING", !.mic = TRUE, !.nodes = TRUE,
                         !.audioContextRef = TRUE, !.sessionPromiseRef = TRUE,
                         !.upstream = "open", !.epoch = 1, !.birth = <<0>>]

InitPlayback ==
    /\ EngineIdle
    /\ user = NULL
    /\ db = NULL
    /\ appError = FALSE
    /\ isLoading = FALSE
    /\ heap = << >>
    /\ flows = {}
    /\ ev = [kind |-> "none", flow |-> 0]
    /\ ops = 0
    /\ voice = SessionOpen
    /\ ui = NoView
    /\ authSession = TRUE

\* One open session: its messages, their decoding and playback, and its end.
NextPlayback ==
    \/ onmessage
    \/ DecodeCompletes
    \/ Tick
    \/ onended
    \/ onerror
    \/ onclose
    \/ stopSession
    \/ SummarySettles
    \/ SessionPromiseSettles

SpecPlayback == InitPlayback /\ [][NextPlayback]_vars

\* The end of the scheduled playback of a source on its context's time line.
ScheduledEnd(src) == src.start + src.dur

\* C17: every buffer of a session is scheduled to start no earlier than the
\* scheduled end (start + duration) of each buffer of the session scheduled
\* before it, and no earlier than the output context's currentTime at the
\* moment it is scheduled; no two scheduled buffers overlap.
C17_NoOverlap ==
    \A j \in DOMAIN voice.sources :
        /\ voice.sources[j].start >= voice.sources[j].at
        /\ \A i \in 1..(j - 1) :
                voice.sources[i].epoch = voice.sources[j].epoch
                    => voice.sources[j].start >= ScheduledEnd(voice.sources[i])

\* Two buffers of one session, the second scheduled while the first has not
\* finished: its start is clamped to the end of the first.
C17_Witness ==
    \E j \in DOMAIN voice.sources : \E i \in 1..(j - 1) :
        /\ voice.sources[i].epoch = voice.sources[j].epoch
        /\ voice.sources[j].at < ScheduledEnd(voice.sources[i])
        /\ voice.sources[j].start = ScheduledEnd(voice.sources[i])

\* A buffer scheduled after the cursor has fallen behind the clock starts at
\* the context's currentTime.
C17_CursorBehind ==
    \E j \in DOMAIN voice.sources : \E i \in 1..(j - 1) :
        /\ voice.sources[i].epoch = voice.sources[j].epoch
        /\ voice.sources[j].at > ScheduledEnd(voice.sources[i])
        /\ voice.sources[j].start = voice.sources[j].at

\* C18: the buffers of a session are played back in the order in which their
\* messages arrived: of two messages of a session, the one that arrived
\* first is scheduled to start first, whichever decodeAudioData call settles
\* first.
C18_ArrivalOrder ==
    \A i, j \in DOMAIN voice.sources :
        (/\ voice.sources[i].epoch = voice.sources[j].epoch
         /\ voice.sources[i].msg < voice.sources[j].msg)
            => voice.sources[i].start < voice.sources[j].start

\* stopSession has run to its end (the session was ended and no await of it
\* is pending).
Ended(v) == v.endRequested /\ v.stop = "none"

Scheduled(v) == {i \in DOMAIN v.sources : v.sources[i].state = "scheduled"}

\* C19: once the user has ended the session, with no asynchronous wait in
\* between, the microphone stream is released, the processing nodes are
\* disconnected, the upstream session is closed and no buffer is scheduled or
\* playing; this stays so afterwards, also for the messages that were being
\* decoded when the session was ended.
C19_EndReleasesAtOnce ==
    voice.endRequested =>
        /\ ~voice.mic
        /\ ~voice.nodes
        /\ voice.upstream \notin {"connecting", "open"}
        /\ Scheduled(voice) = {}

\* The parts of C19 taken one by one, after stopSession has run to its end.
C19_MicReleasedAfterEnd == Ended(voice) => ~voice.mic
C19_NodesDisconnectedAfterEnd == Ended(voice) => ~voice.nodes
C19_UpstreamClosedAfterEnd == Ended(voice) => voice.upstream \notin {"connecting", "open"}
C19_NothingScheduledAfterEnd == Ended(voice) => Scheduled(voice) = {}

(***************************************************************************)
(* The chat history of the profile: handleSaveSmartChatHistory, called by  *)
(* the cleanup of the chat view's effect with the session that ends. A     *)
(* session is a number; the stored sessions are numbered from the oldest.  *)
(***************************************************************************)
MaxHistory == 20

\* updatedHistory = [...(user.smartChatHistory || []), session], then
\* updatedHistory.shift() when its length is above 20.
UpdatedHistoryMutant(history, session) ==
    IF Len(history) + 1 >= MaxHistory THEN Append(Tail(history), session)
    ELSE Append(history, session)
UpdatedHistory(history, session) ==
    LET updatedHistory == Append(history, session)
    IN  IF Len(updatedHistory) > MaxHistory THEN Tail(updatedHistory) ELSE updatedHistory

\* The user of the handler the cleanup calls: the effect's closure is of the
\* render that ran the effect, the last render or the one before a suspended
\* call changed the profile.
ClosureUsers ==
    {user} \cup {flows[g].user : g \in {g \in Flows : flows[g].pc # "idle"}}

\* The session that ends: one that is not in any history yet.
NewSession == MaxHistory + ops + 1

\* handleSaveSmartChatHistory(session) of the render whose user is u.
SaveSmartChatHistory(f, u, session) ==
    /\ CanInvoke(f)
    /\ handleUpdateProfile(f, u,
           [smartChatHistory |-> UpdatedHistory(u.smartChatHistory, session)],
           Value(user, heap), heap, FALSE)
    /\ ops' = ops + 1
    /\ UNCHANGED <<engineVars, voice, authSession>>

\* handleSaveSmartChatHistory(session)
handleSaveSmartChatHistory ==
    \E f \in Flows : \E u \in ClosureUsers :
        /\ SaveSmartChatHistory(f, u, NewSession)
        /\ UNCHANGED ui

\* A stored profile whose chat history holds 0..20 sessions.
InitChat ==
    /\ EngineIdle
    /\ \E targetRole \in OnboardingRoles : \E skills \in OnboardingSkills :
       \E n \in 0..MaxHistory :
            /\ heap = << generateRoadmap(TRUE) >>
            /\ user = [ProfileData(targetRole, skills, 1, TRUE, TRUE)
                          EXCEPT !.smartChatHistory = [i \in 1..n |-> i]]
            /\ db = Value(user, heap)
    /\ appError = FALSE
    /\ isLoading = FALSE
    /\ flows = [f \in Flows |-> IdleFlow]
    /\ ev = [kind |-> "none", flow |-> 0]
    /\ ops = 0
    /\ voice = VoiceInitial
    /\ ui = NoView
    /\ authSession = TRUE

NextChat ==
    \/ handleSaveSmartChatHistory
    \/ PersistenceSucceeds
    \/ PersistenceFails

SpecChat == InitChat /\ [][NextChat]_vars

\* C20: the chat history of the profile, in memory and stored, never holds
\* more than 20 sessions; a save leaves the history it was given with the new
\* session appended when that is at most 20 long, and otherwise exactly the
\* oldest session is dropped: the others keep their order and the new
\* session is last.
C20_HistoryCapped ==
    /\ [](/\ Len(user.smartChatHistory) <= MaxHistory
          /\ Len(db.smartChatHistory) <= MaxHistory)
    /\ [][ev'.kind = "persistIssued" =>
            LET before == flows'[ev'.flow].user.smartChatHistory
                after == user'.smartChatHistory
                dropped == Len(before) + 1 - Len(after)
            IN  /\ Len(after) <= MaxHistory
                /\ dropped = IF Len(before) = MaxHistory THEN 1 ELSE 0
                /\ after[Len(after)] = NewSession
                /\ \A k \in 1..(Len(after) - 1) : after[k] = before[k + dropped]]_vars

\* A save on a full history: the oldest session is gone, the new one is the
\* twentieth.
C20_Witness ==
    /\ ev.kind = "persistIssued"
    /\ Len(flows[ev.flow].user.smartChatHistory) = MaxHistory
    /\ Len(user.smartChatHistory) = MaxHistory
    /\ user.smartChatHistory[1] = flows[ev.flow].user.smartChatHistory[2]
    /\ user.smartChatHistory[MaxHistory] > MaxHistory

\* A save made by a handler of an earlier render, on the history of that
\* render.
C20_StaleSave ==
    /\ ev.kind = "persistIssued"
    /\ \E g \in Flows : /\ g # ev.flow
                        /\ flows[g].pc # "idle"
                        /\ flows[ev.flow].user = flows[g].user

(***************************************************************************)
(* InterviewCoach: the mock interview, its end and the record it saves.    *)
(* A transcript is the number of its messages; ui.ends are the calls of    *)
(* endInterview suspended at await summarizeInterview, each with the       *)
(* messages and the onSaveInterview (so the user) of its render.           *)
(***************************************************************************)
MaxMessages == 3

\* useState initial values of InterviewCoach.
InterviewInitial == [screen |-> "start", messages |-> 0, opening |-> FALSE]

InterviewView ==
    [view |-> "interview", mounted |-> TRUE, inst |-> 1, comp |-> InterviewInitial,
     ends |-> << >>]

\* The component's handlers can be invoked.
InterviewShown == ViewsRendered /\ ui.mounted

\* startInterview up to the await of the opening message (the button is
\* disabled while isLoading).
startInterview ==
    /\ InterviewShown
    /\ ui.comp.screen = "start"
    /\ ~ui.comp.opening
    /\ ui' = [ui EXCEPT !.comp.screen = "interview", !.comp.opening = TRUE]
    /\ ev' = [kind |-> "startInterview", flow |-> 0]
    /\ UNCHANGED <<engineVars, voice, authSession, user, db, appError, isLoading, heap,
                   flows, ops>>

\* The opening message has streamed in: setMessages([{ role: 'model', ... }]).
OpeningArrives ==
    /\ ui.mounted
    /\ ui.comp.opening
    /\ ui' = [ui EXCEPT !.comp.messages = 1, !.comp.opening = FALSE]
    /\ ev' = [kind |-> "opening", flow |-> 0]
    /\ UNCHANGED <<engineVars, voice, authSession, user, db, appError, isLoading, heap,
                   flows, ops>>

\* handleSend: the user's message and the model's answer are appended.
handleSend ==
    /\ InterviewShown
    /\ ui.comp.screen = "interview"
    /\ ~ui.comp.opening
    /\ ui.comp.messages >= 1
    /\ ui.comp.messages + 2 <= MaxMessages
    /\ ui' = [ui EXCEPT !.comp.messages = @ + 2]
    /\ ev' = [kind |-> "send", flow |-> 0]
    /\ UNCHANGED <<engineVars, voice, authSession, user, db, appError, isLoading, heap,
                   flows, ops>>

\* if (messages.length <= 1): only the initial message exists.
OnlyInitialMessageMutant(messages) == messages < 1
OnlyInitialMessage(messages) == messages <= 1

\* endInterview up to its return or its await of summarizeInterview. The End
\* Interview button is not disabled while a summary is awaited.
endInterview ==
    /\ InterviewShown
    /\ ui.comp.screen = "interview"
    /\ IF OnlyInitialMessage(ui.comp.messages)
       THEN /\ ui' = [ui EXCEPT !.comp.screen = "start", !.comp.messages = 0]
            /\ ev' = [kind |-> "endInterview", flow |-> 0, summary |-> FALSE,
                       messages |-> ui.comp.messages]
            /\ ops' = ops
       ELSE /\ ops < MaxOps
            /\ ui' = [ui EXCEPT !.ends = Append(@, [user |-> user,
                                                     messages |-> ui.comp.messages,
                                                     inst |-> ui.inst, id |-> ops + 1])]
            /\ ev' = [kind |-> "endInterview", flow |-> 0, summary |-> TRUE,
                       messages |-> ui.comp.messages]
            /\ ops' = ops + 1
    /\ UNCHANGED <<engineVars, voice, authSession, user, db, appError, isLoading, heap,
                   flows>>

\* The record of an interview.
InterviewSession(id, messages) == [id |-> id, transcript |-> messages]

\* Without the i-th element.
Remove(seq, i) == [k \in 1..(Len(seq) - 1) |-> IF k < i THEN seq[k] ELSE seq[k + 1]]

\* summarizeInterview settles: onSaveInterview(session), which is the
\* handleSaveInterview of the render of the press, then setView('summary') on
\* the component of the press. handleUpdateProfile clears appError, so an
\* error screen gives way to a new InterviewCoach.
SummarizeSettles ==
    \E i \in DOMAIN ui.ends : \E f \in Flows :
        LET end == ui.ends[i]
            sessionData == InterviewSession(end.id, end.messages)
            rest == [ui EXCEPT !.ends = Remove(@, i)]
        IN  /\ FreeFlow(f)
            /\ handleUpdateProfile(f, end.user,
                   [interviewHistory |-> <<sessionData>> \o end.user.interviewHistory],
                   Value(user, heap), heap, FALSE)
            /\ ui' = IF ~ui.mounted THEN Mounted(rest, InterviewInitial)
                     ELSE IF end.inst = ui.inst THEN [rest EXCEPT !.comp.screen = "summary"]
                     ELSE rest
            /\ UNCHANGED <<engineVars, voice, authSession, ops>>

\* The Done button of the summary: setMessages([]); setView('start').
Done ==
    /\ InterviewShown
    /\ ui.comp.screen = "summary"
    /\ ui' = [ui EXCEPT !.comp.screen = "start", !.comp.messages = 0]
    /\ ev' = [kind |-> "done", flow |-> 0]
    /\ UNCHANGED <<engineVars, voice, authSession, user, db, appError, isLoading, heap,
                   flows, ops>>

\* An onboarded user on the interview view.
InitInterview ==
    /\ EngineIdle
    /\ \E targetRole \in OnboardingRoles : \E skills \in OnboardingSkills :
            /\ heap = << generateRoadmap(TRUE) >>
            /\ user = ProfileData(targetRole, skills, 1, TRUE, TRUE)
            /\ db = Value(user, heap)
    /\ appError = FALSE
    /\ isLoading = FALSE
    /\ flows = [f \in Flows |-> IdleFlow]
    /\ ev = [kind |-> "none", flow |-> 0]
    /\ ops = 0
    /\ voice = VoiceInitial
    /\ ui = InterviewView
    /\ authSession = TRUE

NextInterview ==
    \/ startInterview
    \/ OpeningArrives
    \/ handleSend
    \/ endInterview
    \/ SummarizeSettles
    \/ Done
    \/ PersistenceSucceeds
    \/ PersistenceFails

SpecInterview == InitInterview /\ [][NextInterview]_vars

\* C21: ending an interview of at most one message requests no summary,
\* calls no onSaveInterview and leaves the profile, in memory and stored, as
\* it is; ending one of more messages requests one summary, and the save
\* that follows puts exactly one record, of that transcript, in front of
\* the history its handler read, whose records stay as they are and in
\* their order.
C21_MinimumContentGuard ==
    [][/\ (ev'.kind = "endInterview" /\ ev'.messages <= 1)
            => /\ ~ev'.summary
               /\ ui'.ends = ui.ends
               /\ user' = user /\ db' = db /\ flows' = flows
       /\ (ev'.kind = "endInterview" /\ ev'.messages > 1)
            => /\ ev'.summary
               /\ Len(ui'.ends) = Len(ui.ends) + 1
               /\ user' = user /\ db' = db /\ flows' = flows
       /\ ev'.kind = "persistIssued"
            => LET before == flows'[ev'.flow].user.interviewHistory
                   after == user'.interviewHistory
               IN  /\ Len(after) = Len(before) + 1
                   /\ after[1].transcript > 1
                   /\ \A k \in DOMAIN before : after[k + 1] = before[k]
                   /\ flows'[ev'.flow].payload.interviewHistory = after
                   /\ Len(ui'.ends) = Len(ui.ends) - 1]_vars

\* An interview of several messages was recorded, and a later one that held
\* only the opening message has just been ended: the history still holds the
\* one record.
C21_Witness ==
    /\ ev.kind = "endInterview"
    /\ ev.messages = 1
    /\ ~ev.summary
    /\ Len(user.interviewHistory) = 1
    /\ user.interviewHistory[1].transcript > 1
    /\ ui.ends = << >>

\* A second interview is recorded in front of the record of the first.
C21_SecondRecord ==
    /\ ev.kind = "persistIssued"
    /\ Len(user.interviewHistory) = 2
    /\ user.interviewHistory[1].id # user.interviewHistory[2].id

\* End Interview pressed twice while the summary is awaited: the second save
\* starts from the history of the render of the press.
C21_PressedTwice ==
    /\ ev.kind = "persistIssued"
    /\ \E g \in Flows : /\ g # ev.flow
                        /\ flows[g].pc = "persisting"
                        /\ flows[g].user = flows[ev.flow].user

\* C22: when the persistence of a saved session fails the error is surfaced,
\* the feature view stays rendered and the component keeps its state, the
\* transcript included.
C22_FailureDoesNotBlock ==
    [][ev'.kind = "persistFailed"
        => /\ appError'
           /\ ui'.mounted
           /\ ui.mounted => ui'.comp = ui.comp]_vars

\* The part of C22 that holds: the error is surfaced.
C22_ErrorSurfaced == [][ev'.kind = "persistFailed" => appError']_vars

(***************************************************************************)
(* The auth session: sign-out and the auth state listener, interleaved     *)
(* with the profile updates of App.                                        *)
(***************************************************************************)
\* The onAuthStateChange listener called with no session (sign-out here or
\* elsewhere, an expired session): setSession(null), setUser(null).
onAuthStateChange ==
    /\ authSession
    /\ authSession' = FALSE
    /\ user' = NULL
    /\ ev' = [kind |-> "signedOut", flow |-> 0]
    /\ UNCHANGED <<engineVars, voice, ui, db, appError, isLoading, heap, flows, ops>>

\* handleLogout: supabase.auth.signOut() succeeds (the listener runs, then
\* setUser(null) and setView('dashboard')) or returns an error (setAppError).
handleLogout ==
    \E ok \in BOOLEAN :
        /\ ViewsRendered
        /\ IF ok
           THEN /\ authSession' = FALSE
                /\ user' = NULL
                /\ appError' = appError
                /\ ev' = [kind |-> "signedOut", flow |-> 0]
           ELSE /\ authSession' = authSession
                /\ user' = user
                /\ appError' = TRUE
                /\ ev' = [kind |-> "logoutFailed", flow |-> 0]
        /\ UNCHANGED <<engineVars, voice, ui, db, isLoading, heap, flows, ops>>

NextAuth ==
    \/ handleSaveInterview
    \/ ProfileEditorSubmit
    \/ StartGenerate
    \/ GenerateSettles
    \/ RegenerationSettles
    \/ PersistenceSucceeds
    \/ PersistenceFails
    \/ handleLogout
    \/ onAuthStateChange

SpecAuth == Init /\ [][NextAuth]_vars

\* C23: while there is no auth session the in-memory profile is null, and
\* no profile persistence call is issued without a session.
C23_SessionGatesProfile ==
    /\ [](~authSession => user = NULL)
    /\ [][ev'.kind = "persistIssued" => authSession']_vars

\* The two parts of C23 taken one by one.
C23_NoProfileWithoutSession == ~authSession => user = NULL
C23_NoPersistenceWithoutSession == [][ev'.kind = "persistIssued" => authSession']_vars

(***************************************************************************)
(* Two toggles of one roadmap step.                                        *)
(***************************************************************************)
\* Reached under Spec: a profile, the same in memory and in the store, with
\* a completed step and less xp than the step's reward. (A regeneration of
\* the projects started before the step was completed, and settled after,
\* writes the profile of its render over the toggle's xp, while the step
\* object it shares stays completed.)
CompletedStepWithoutXp ==
    /\ AllIdle
    /\ ViewsRendered
    /\ db = Value(user, heap)
    /\ \E index \in DOMAIN heap[user.roadmap] :
            heap[user.roadmap][index].completed /\ user.xp < ToggleXp

\* The journey view with the record of the toggles made on it: for each, the
\* step, and its completed flag, the xp and the level before it.
JourneyView ==
    [view |-> "journey", mounted |-> TRUE, inst |-> 1, comp |-> [screen |-> "journey"],
     toggles |-> << >>]

Completed(roadmap) == {index \in DOMAIN roadmap : roadmap[index].completed}

\* The roadmap rs with the steps of done completed.
WithCompleted(rs, done) ==
    [index \in DOMAIN rs |-> [rs[index] EXCEPT !.completed = index \in done]]

\* fetchProfile installs the stored row of an onboarded user: any steps
\* completed, with the xp of those steps, or with no xp for one completed
\* step (CompletedStepWithoutXp).
InitToggle ==
    /\ EngineIdle
    /\ \E targetRole \in OnboardingRoles : \E skills \in OnboardingSkills :
       \E done \in SUBSET (1..GenSteps) :
       \E xp \in {ToggleXp * Cardinality(done)} \cup (IF Cardinality(done) = 1 THEN {0} ELSE {}) :
            /\ heap = << WithCompleted(generateRoadmap(TRUE), done) >>
            /\ user = [ProfileData(targetRole, skills, 1, TRUE, TRUE)
                          EXCEPT !.xp = xp, !.level = LevelOf(xp)]
            /\ db = Value(user, heap)
    /\ appError = FALSE
    /\ isLoading = FALSE
    /\ flows = [f \in Flows |-> IdleFlow]
    /\ ev = [kind |-> "none", flow |-> 0]
    /\ ops = 0
    /\ voice = VoiceInitial
    /\ ui = JourneyView
    /\ authSession = TRUE

\* onRoadmapToggle(index) from the roadmap of the journey view.
ToggleStep ==
    \E f \in Flows : \E index \in 1..GenSteps :
        /\ RoadmapToggle(f, index)
        /\ ui' = [ui EXCEPT !.toggles = Append(@,
                      [index |-> index, completed |-> heap[user.roadmap][index].completed,
                       xp |-> user.xp, level |-> user.level])]

NextToggle ==
    \/ ToggleStep
    \/ PersistenceSucceeds
    \/ PersistenceFails

SpecToggle == InitToggle /\ [][NextToggle]_vars

\* The same step was toggled twice and both updates were persisted.
ToggledTwice ==
    /\ Len(ui.toggles) = 2
    /\ ui.toggles[1].index = ui.toggles[2].index
    /\ AllIdle
    /\ ~appError

\* C24: after the same step was toggled twice in succession, both updates
\* persisted, the step's completed flag, the xp and the level are the ones
\* from before the first toggle.
C24_TwoTogglesRestore ==
    ToggledTwice =>
        /\ heap[user.roadmap][ui.toggles[1].index].completed = ui.toggles[1].completed
        /\ user.xp = ui.toggles[1].xp
        /\ user.level = ui.toggles[1].level

\* The same, from the profiles whose xp covers their completed steps.
C24_RestoredWhenXpCovers ==
    (ToggledTwice /\ (ui.toggles[1].completed => ui.toggles[1].xp >= ToggleXp))
        => /\ heap[user.roadmap][ui.toggles[1].index].completed = ui.toggles[1].completed
           /\ user.xp = ui.toggles[1].xp
           /\ user.level = ui.toggles[1].level

\* The project detail modal of the journey view. selectedProject is the
\* project object that was clicked in the list, kept in the state of
\* MyJourney and passed to the modal as its project; notes is the state of the
\* modal's text area. update is the record of the last call of
\* onUpdateProject made from the modal: the control used, the project's
\* title, the status sent, the xp the project gives, and the stored status,
\* the xp and the level at the call.
NoteTexts == {"", "n1"}

ProjectView ==
    [view |-> "journey", mounted |-> TRUE, inst |-> 1,
     comp |-> [screen |-> "journey", selectedProject |-> NULL, notes |-> ""],
     update |-> NULL]

\* project.notes || ''
NotesOf(project) == IF "notes" \in DOMAIN project THEN project.notes ELSE ""

\* { ...project, notes }
WithNotes(project, notes) ==
    [k \in DOMAIN project \cup {"notes"} |-> IF k = "notes" THEN notes ELSE project[k]]

\* The projects ps with the statuses of the sequence ss.
WithStatuses(ps, ss) == [i \in DOMAIN ps |-> [ps[i] EXCEPT !.status = ss[i]]]

\* fetchProfile installs the stored row of an onboarded user: the projects in
\* any statuses, with the xp of the completed ones, or with that xp less the
\* xp of a roadmap step that was unmarked after its own xp had been lost
\* (CompletedStepWithoutXp).
InitProject ==
    /\ EngineIdle
    /\ \E targetRole \in OnboardingRoles : \E skills \in OnboardingSkills :
       \E ss \in [1..Len(GeneratedProjects) -> Status] :
       LET ps == WithStatuses(NotStarted(GeneratedProjects), ss)
           earned == CompletedXp(ps, Len(ps))
       IN  \E xp \in {earned} \cup (IF earned > 0 THEN {NewXp(earned, -ToggleXp)} ELSE {}) :
            /\ heap = << generateRoadmap(TRUE) >>
            /\ user = [ProfileData(targetRole, skills, 1, TRUE, TRUE)
                          EXCEPT !.projects = ps, !.xp = xp, !.level = LevelOf(xp)]
            /\ db = Value(user, heap)
    /\ appError = FALSE
    /\ isLoading = FALSE
    /\ flows = [f \in Flows |-> IdleFlow]
    /\ ev = [kind |-> "none", flow |-> 0]
    /\ ops = 0
    /\ voice = VoiceInitial
    /\ ui = ProjectView
    /\ authSession = TRUE

ModalOpen == ui.view = "journey" /\ ui.mounted /\ ui.comp.selectedProject # NULL

\* onSelect={() => setSelectedProject(p)} of a project of the list; the modal
\* mounts with useState(project.notes || '').
OpenModal ==
    \E i \in 1..Len(GeneratedProjects) :
        /\ ViewsRendered
        /\ ui.view = "journey" /\ ui.mounted
        /\ ui.comp.selectedProject = NULL
        /\ i \in DOMAIN user.projects
        /\ ui' = [ui EXCEPT !.comp.selectedProject = user.projects[i],
                            !.comp.notes = NotesOf(user.projects[i])]
        /\ ev' = [kind |-> "openModal", flow |-> 0]
        /\ UNCHANGED <<engineVars, voice, authSession, user, db, appError, isLoading,
                       heap, flows, ops>>

\* onClose={() => setSelectedProject(null)}
CloseModal ==
    /\ ViewsRendered
    /\ ModalOpen
    /\ ui' = [ui EXCEPT !.comp.selectedProject = NULL, !.comp.notes = ""]
    /\ ev' = [kind |-> "closeModal", flow |-> 0]
    /\ UNCHANGED <<engineVars, voice, authSession, user, db, appError, isLoading,
                   heap, flows, ops>>

\* A call of onUpdateProject(updatedProject) from a control of the modal.
ModalUpdate(f, control, updatedProject) ==
    /\ UpdateProject(f, updatedProject)
    /\ ui' = [ui EXCEPT !.comp.notes = updatedProject.notes, !.update =
                  [control |-> control, title |-> updatedProject.title,
                   status |-> updatedProject.status, worth |-> updatedProject.xp,
                   stored |-> StoredStatus(user.projects, updatedProject.title),
                   xp |-> user.xp, level |-> user.level]]

\* The text area is edited, onChange={(e) => setNotes(e.target.value)}, and
\* the Save Notes button pressed: onUpdateProject({ ...project, notes })
SaveNotes ==
    \E f \in Flows : \E notes \in NoteTexts :
        /\ ViewsRendered
        /\ ModalOpen
        /\ ModalUpdate(f, "notes", WithNotes(ui.comp.selectedProject, notes))

\* handleStatusChange(status): onUpdateProject({ ...project, status, notes })
handleStatusChange ==
    \E f \in Flows : \E status \in Status :
        /\ ViewsRendered
        /\ ModalOpen
        /\ ModalUpdate(f, "status",
               WithNotes([ui.comp.selectedProject EXCEPT !.status = status], ui.comp.notes))

NextProject ==
    \/ OpenModal
    \/ CloseModal
    \/ SaveNotes
    \/ handleStatusChange
    \/ PersistenceSucceeds
    \/ PersistenceFails

SpecProject == InitProject /\ [][NextProject]_vars

\* A step in which the modal called onUpdateProject.
ProjectUpdated ==
    /\ ev'.kind = "persistIssued"
    /\ flows[ev'.flow].pc = "idle"
    /\ flows'[ev'.flow].pc = "persisting"

\* C25: an update of a project adds the project's xp when the stored status
\* was not Completed and the new one is, subtracts it (not below 0) when the
\* stored status was Completed and the new one is not, and leaves xp and level
\* as they were for every other pair of statuses; the level is the one of the
\* new xp.
C25_XpFollowsCompletion ==
    [][ProjectUpdated =>
          LET title == ui'.update.title
              old == StoredStatus(user.projects, title)
              new == StoredStatus(user'.projects, title)
              worth == user'.projects[CHOOSE j \in DOMAIN user'.projects :
                                          user'.projects[j].title = title].xp
          IN  /\ (old # "Completed" /\ new = "Completed") => user'.xp = user.xp + worth
              /\ (old = "Completed" /\ new # "Completed") =>
                     user'.xp = (IF user.xp < worth THEN 0 ELSE user.xp - worth)
              /\ ((old = "Completed") <=> (new = "Completed")) =>
                     (user'.xp = user.xp /\ user'.level = user.level)
              /\ user'.level = (user'.xp \div LevelXp) + 1]_vars

\* A completed project was moved out of Completed when the profile had less
\* xp than the project gives: the xp is 0.
C25_Witness ==
    /\ ui.update # NULL
    /\ LET e == ui.update
       IN  /\ e.stored = "Completed"
           /\ e.status # "Completed"
           /\ e.xp > 0
           /\ e.xp < e.worth
           /\ flows[ev.flow].pc = "persisting"
           /\ user.xp = 0

\* A project that was Completed was saved as Completed again.
C25_CompletedAgain ==
    /\ ui.update # NULL
    /\ LET e == ui.update
       IN  e.stored = "Completed" /\ e.status = "Completed" /\ user.xp = e.xp

\* A step in which the Save Notes button called onUpdateProject.
NotesSaved == ProjectUpdated /\ ui'.update.control = "notes"

\* C26: saving the notes in the project detail modal leaves the project's
\* status, the xp and the level as they were in the profile just before, also
\* after a status change made earlier in the same open modal.
C26_SavingNotesKeepsStatusAndXp ==
    [][NotesSaved =>
          LET title == ui'.update.title
          IN  /\ StoredStatus(user'.projects, title) = StoredStatus(user.projects, title)
              /\ user'.xp = user.xp
              /\ user'.level = user.level]_vars

\* The same, when the project the modal holds has the stored status.
C26_KeptWhenModalIsCurrent ==
    [][(NotesSaved /\ ui.comp.selectedProject.status
                         = StoredStatus(user.projects, ui.comp.selectedProject.title)) =>
          LET title == ui'.update.title
          IN  /\ StoredStatus(user'.projects, title) = StoredStatus(user.projects, title)
              /\ user'.xp = user.xp
              /\ user'.level = user.level]_vars

\* The notes were saved after the status had been changed in the same modal:
\* the status is the one the modal was opened with.
C26_StatusReverted ==
    /\ ui.update # NULL
    /\ ui.update.control = "notes"
    /\ ui.update.stored # ui.update.status
    /\ StoredStatus(user.projects, ui.update.title) = ui.update.status

(***************************************************************************)
(* The voice view with its component mounted and a session open. ends     *)
(* counts the times the session was ended, by the button or by leaving    *)
(* the view, and due those of them at which the component held a          *)
(* transcript that was not empty.                                          *)
(***************************************************************************)
VoiceView == [view |-> "voice", mounted |-> TRUE, inst |-> 1, ends |-> 0, due |-> 0]

\* The view's record after an end at which the transcript held n entries.
EndedWith(u, n) == [u EXCEPT !.ends = @ + 1, !.due = IF n > 0 THEN @ + 1 ELSE @]

InitVoiceView ==
    /\ EngineIdle
    /\ user = NULL
    /\ db = NULL
    /\ appError = FALSE
    /\ isLoading = FALSE
    /\ heap = << >>
    /\ flows = {}
    /\ ev = [kind |-> "none", flow |-> 0]
    /\ ops = 0
    /\ voice = SessionOpen
    /\ ui = VoiceView
    /\ authSession = TRUE

\* callbacks.onmessage for a message with a transcription only.
onTranscription ==
    /\ voice.upstream = "open"
    /\ voice.arrived < MaxMsgs
    /\ voice' = [voice EXCEPT !.arrived = @ + 1, !.transcript = @ + 1]
    /\ UNCHANGED <<engineVars, appVars, ui, authSession>>

\* The End Session button of the mounted component.
EndSession ==
    /\ ui.mounted
    /\ EndSessionShown
    /\ voice' = StopSession(voice, voice.transcript)
    /\ ui' = EndedWith(ui, voice.transcript)
    /\ UNCHANGED <<engineVars, appVars, authSession>>

\* The view is left while the session is on: the cleanup of
\* useEffect(() => { return () => { stopSession(); }; }, []) calls the
\* stopSession of the first render, whose transcript is the initial [].
UnmountVoice ==
    /\ ui.mounted
    /\ EndSessionShown
    /\ voice' = StopSession(voice, VoiceInitial.transcript)
    /\ ui' = [EndedWith(ui, voice.transcript) EXCEPT !.mounted = FALSE]
    /\ UNCHANGED <<engineVars, appVars, authSession>>

NextVoiceView ==
    \/ onmessage
    \/ onTranscription
    \/ DecodeCompletes
    \/ Tick
    \/ onended
    \/ onerror
    \/ onclose
    \/ EndSession
    \/ UnmountVoice
    \/ SummarySettles
    \/ SessionPromiseSettles

SpecVoiceView == InitVoiceView /\ [][NextVoiceView]_vars

\* C27: a voice session that has ended, by the End Session button or by the
\* component unmounting, has saved exactly one record when its transcript
\* was not empty, and none when it was empty.
C27_OneRecordPerSession ==
    (ui.ends > 0 /\ Ended(voice)) => voice.saved = ui.due

\* The same for the sessions ended by the End Session button.
C27_ButtonSavesOne ==
    (ui.ends > 0 /\ ui.mounted /\ Ended(voice)) => voice.saved = ui.due

\* The view was left with a transcript and stopSession has returned: nothing
\* was saved.
C27_UnmountSavesNothing ==
    /\ ~ui.mounted
    /\ ui.ends = 1
    /\ ui.due = 1
    /\ Ended(voice)
    /\ voice.saved = 0

\* C29: once stopSession has completed the status is IDLE, and once a
\* connection error was reported it is ERROR, and it stays so until the next
\* startSession, whatever ended callbacks of stopped buffers run meanwhile.
C29_StatusSettled ==
    /\ [](Ended(voice) => voice.status = "IDLE")
    /\ [][(voice.status = "ERROR" /\ voice.stop = "none")
              => voice'.status \in {"ERROR", "CONNECTING"}]_vars

\* stopSession has completed, a buffer stopped by cleanUpAudio has reported
\* its end, and the status is LISTENING with no session.
C29_ListeningAfterEnd ==
    /\ Ended(voice)
    /\ voice.upstream \notin {"connecting", "open"}
    /\ voice.status = "LISTENING"
    /\ \E i \in DOMAIN voice.sources : voice.sources[i].state = "done"

\* The status set by stopSession or onerror stays when no session is being
\* opened, no buffer was in the queue at the cleanup and none was being
\* decoded.
C29_SettledWhenNothingQueued ==
    [][(/\ voice.status \in {"IDLE", "ERROR"}
        /\ voice.stop = "none"
        /\ ~voice.starting
        /\ voice.upstream \notin {"connecting", "open"}
        /\ voice.decoding = {}
        /\ \A i \in DOMAIN voice.sources : voice.sources[i].state = "done")
            => voice'.status \in {voice.status, "CONNECTING"}]_vars

\* The first source scheduled in each session.
FirstOfSession(v) ==
    {j \in DOMAIN v.sources :
        \A i \in 1..(j - 1) : v.sources[i].epoch # v.sources[j].epoch}

\* C30: the first buffer of every session is scheduled at the current time
\* of that session's output context, also in a session started after an
\* earlier one on the same mounted component.
C30_CursorPerSession ==
    \A j \in FirstOfSession(voice) : voice.sources[j].start = voice.sources[j].at

\* The same while the component has had one session only.
C30_FirstSessionAtCurrentTime ==
    voice.epoch = 1 =>
        \A j \in FirstOfSession(voice) : voice.sources[j].start = voice.sources[j].at

\* The first buffer of a second session is scheduled at the cursor the first
\* session left, later than the new context's current time.
C30_CarriedCursor ==
    \E j \in FirstOfSession(voice) :
        /\ voice.sources[j].epoch = 2
        /\ voice.sources[j].start > voice.sources[j].at
        /\ \E i \in 1..(j - 1) : voice.sources[j].start = ScheduledEnd(voice.sources[i])

(***************************************************************************)
(* SmartChat with its effects. messages is the state of the render last    *)
(* committed: the conversation it belongs to, the number of its messages   *)
(* that are not the typing indicator, and whether the indicator is there.  *)
(* ref is messagesRef.current. effect is the closure of the effect that    *)
(* ran last: the user of the onSaveHistory it was given and its            *)
(* modeForThisSession. render tells which render waits for its effects:    *)
(* "state" after a change of the component's messages only, "deps" after   *)
(* a change of chatMode or a render of App (new user, new onSaveHistory).  *)
(* convs counts the conversations started, and saves is the record of the  *)
(* onSaveHistory calls: the conversations they were made for.              *)
(***************************************************************************)
MaxSwitches == 1
MaxSends == 2
ChatModes == {"mentor", "deep"}

\* setMessages([{ role: 'model', text: welcomeMessage }]) of initChat.
Welcome(conv) == [conv |-> conv, n |-> 1, typing |-> FALSE]

\* messagesToSave.length
RawLength(messages) == messages.n + (IF messages.typing THEN 1 ELSE 0)

\* messagesToSave.length > 1, and more than one message is left by
\* filter(m => m.text !== 'TYPING_INDICATOR')
WorthSaving(messages) == RawLength(messages) > 1 /\ messages.n > 1

\* The session object of the cleanup.
ChatSession(messages, mode) == [conv |-> messages.conv, mode |-> mode, messages |-> messages.n]

\* The chat view after its mount: the effect has run for the first render and
\* the welcome message of initChat has been rendered.
ChatView ==
    [view |-> "chat", mounted |-> TRUE, inst |-> 1,
     comp |-> [messages |-> Welcome(1), ref |-> Welcome(1), chatMode |-> "mentor",
               effect |-> [user |-> NULL, mode |-> "mentor"], render |-> "none",
               sends |-> 0, switches |-> 0],
     convs |-> 1, saves |-> << >>]

InitChatView ==
    /\ EngineIdle
    /\ \E targetRole \in OnboardingRoles : \E skills \in OnboardingSkills :
       \E n \in 0..1 :
            /\ heap = << generateRoadmap(TRUE) >>
            /\ user = [ProfileData(targetRole, skills, 1, TRUE, TRUE)
                          EXCEPT !.smartChatHistory =
                                    [i \in 1..n |-> [conv |-> 0, mode |-> "mentor", messages |-> 2]]]
            /\ db = Value(user, heap)
            /\ ui = [ChatView EXCEPT !.comp.effect.user = user]
    /\ appError = FALSE
    /\ isLoading = FALSE
    /\ flows = [f \in Flows |-> IdleFlow]
    /\ ev = [kind |-> "none", flow |-> 0]
    /\ ops = 0
    /\ voice = VoiceInitial
    /\ authSession = TRUE

\* The chat view is rendered and every render has had its effects: React
\* runs the effects of a render before it handles the next event.
ChatSettled ==
    /\ ViewsRendered
    /\ ui.view = "chat"
    /\ ui.mounted
    /\ ui.comp.render = "none"

\* handleSend up to its await: the user's message and, outside web mode, the
\* typing indicator are appended.
ChatSend ==
    /\ ChatSettled
    /\ ~ui.comp.messages.typing
    /\ ui.comp.sends < MaxSends
    /\ ui' = [ui EXCEPT !.comp.messages.n = @ + 1, !.comp.messages.typing = TRUE,
                        !.comp.sends = @ + 1, !.comp.render = "state"]
    /\ ev' = [kind |-> "chatSend", flow |-> 0]
    /\ UNCHANGED <<engineVars, voice, authSession, user, db, appError, isLoading,
                   heap, flows, ops>>

\* The response stream of handleSend: the text replaces the typing
\* indicator of the last message.
ChatResponse ==
    /\ ChatSettled
    /\ ui.comp.messages.typing
    /\ ui' = [ui EXCEPT !.comp.messages.n = @ + 1, !.comp.messages.typing = FALSE,
                        !.comp.render = "state"]
    /\ ev' = [kind |-> "chatResponse", flow |-> 0]
    /\ UNCHANGED <<engineVars, voice, authSession, user, db, appError, isLoading,
                   heap, flows, ops>>

\* setChatMode(mode) of the mode buttons.
setChatMode ==
    \E mode \in ChatModes :
        /\ ChatSettled
        /\ mode # ui.comp.chatMode
        /\ ui.comp.switches < MaxSwitches
        /\ ui' = [ui EXCEPT !.comp.chatMode = mode, !.comp.switches = @ + 1,
                            !.comp.render = "deps"]
        /\ ev' = [kind |-> "setChatMode", flow |-> 0]
        /\ UNCHANGED <<engineVars, voice, authSession, user, db, appError, isLoading,
                       heap, flows, ops>>

\* The effects of a render in which only messages changed:
\* messagesRef.current = messages.
CommitState ==
    /\ ViewsRendered
    /\ ui.view = "chat" /\ ui.mounted
    /\ ui.comp.render = "state"
    /\ ui' = [ui EXCEPT !.comp.ref = ui.comp.messages, !.comp.render = "none"]
    /\ ev' = [kind |-> "commit", flow |-> 0]
    /\ UNCHANGED <<engineVars, voice, authSession, user, db, appError, isLoading,
                   heap, flows, ops>>

\* The component after the effects of a render whose user, chatMode or
\* onSaveHistory differ from those the effect last ran with, the cleanup of
\* the previous effect having run first: messagesRef.current = messages,
\* then the effect with initChat, whose setMessages starts a conversation.
\* saved tells whether the cleanup called onSaveHistory, which sets the
\* profile and so renders App again.
AfterEffects(u, saved) ==
    [u EXCEPT !.comp.ref = u.comp.messages,
              !.comp.messages = Welcome(u.convs + 1),
              !.convs = @ + 1,
              !.comp.effect = [user |-> user, mode |-> u.comp.chatMode],
              !.comp.render = IF saved THEN "deps" ELSE "state",
              !.saves = IF saved THEN Append(@, u.comp.ref.conv) ELSE @]

\* The effects of a render after a change of chatMode or a render of App.
CommitDeps ==
    /\ ViewsRendered
    /\ ui.view = "chat" /\ ui.mounted
    /\ ui.comp.render = "deps"
    /\ IF WorthSaving(ui.comp.ref)
       THEN \E f \in Flows :
               /\ SaveSmartChatHistory(f, ui.comp.effect.user,
                      ChatSession(ui.comp.ref, ui.comp.effect.mode))
               /\ ui' = AfterEffects(ui, TRUE)
       ELSE /\ ui' = AfterEffects(ui, FALSE)
            /\ ev' = [kind |-> "commit", flow |-> 0]
            /\ UNCHANGED <<engineVars, voice, authSession, user, db, appError, isLoading,
                           heap, flows, ops>>

\* Another view is chosen: SmartChat unmounts and the cleanup of its effect
\* runs.
LeaveChat ==
    /\ ChatSettled
    /\ IF WorthSaving(ui.comp.ref)
       THEN \E f \in Flows :
               /\ SaveSmartChatHistory(f, ui.comp.effect.user,
                      ChatSession(ui.comp.ref, ui.comp.effect.mode))
               /\ ui' = [Unmounted(ui) EXCEPT !.saves = Append(@, ui.comp.ref.conv)]
       ELSE /\ ui' = Unmounted(ui)
            /\ ev' = [kind |-> "leaveChat", flow |-> 0]
            /\ UNCHANGED <<engineVars, voice, authSession, user, db, appError, isLoading,
                           heap, flows, ops>>

NextChatView ==
    \/ ChatSend
    \/ ChatResponse
    \/ setChatMode
    \/ CommitState
    \/ CommitDeps
    \/ LeaveChat
    \/ PersistenceSucceeds

SpecChatView == InitChatView /\ [][NextChatView]_vars

\* The number of onSaveHistory calls made for conversation conv.
SavesOf(conv) == Cardinality({i \in DOMAIN ui.saves : ui.saves[i] = conv})

\* The number of records of conversation conv in the history.
RecordsOf(history, conv) == Cardinality({i \in DOMAIN history : history[i].conv = conv})

\* C28: every conversation is in smartChatHistory at most once, the recorded
\* ones hold more than one message apart from typing indicators, and
\* onSaveHistory is called at most once for a conversation: a save does not
\* bring about a further save of the same conversation.
C28_RecordedAtMostOnce ==
    \A conv \in 0..ui.convs :
        /\ RecordsOf(user.smartChatHistory, conv) <= 1
        /\ db # NULL => RecordsOf(db.smartChatHistory, conv) <= 1
        /\ \A i \in DOMAIN user.smartChatHistory : user.smartChatHistory[i].messages > 1
        /\ SavesOf(conv) <= 1

\* The parts of C28 about the stored history alone.
C28_OnceInHistory ==
    \A conv \in 0..ui.convs :
        /\ RecordsOf(user.smartChatHistory, conv) <= 1
        /\ db # NULL => RecordsOf(db.smartChatHistory, conv) <= 1
        /\ \A i \in DOMAIN user.smartChatHistory : user.smartChatHistory[i].messages > 1

\* onSaveHistory was called twice for one conversation, the second time from
\* the render that the first save brought about.
C28_SavedAgain ==
    /\ Len(ui.saves) = 2
    /\ ui.saves[1] = ui.saves[2]

====
